---- MODULE Spec2Model ----
(***************************************************************************)
(* Model of the Ollama subtitle translator (src/App.tsx and the services   *)
(* concatenated into it: srtParser, ollama; src/unnamed/part_001: types).  *)
(*                                                                         *)
(* Strings are sequences of one-character strings, so that trim, split and *)
(* join are computed character by character as the JavaScript does.        *)
(***************************************************************************)
EXTENDS Integers, Sequences, FiniteSets, TLC

(***************************************************************************)
(* Bounds of the model.                                                    *)
(***************************************************************************)
\* largest number of texts handed to translateBatch in the codec specification
MaxTexts == 2
\* largest number of pieces a backend response is assembled from (codec)
MaxChunks == 4
\* largest number of pieces a host address is assembled from
MaxHostChunks == 3
\* largest number of entries of an uploaded document
MaxLines == 23
\* largest value Date.now() takes
MaxTime == 2
\* largest number of load() calls of the load effect in flight at once
MaxLoads == 2

(***************************************************************************)
(* Program constants.                                                      *)
(***************************************************************************)
BATCH_SIZE == 10

\* '---SPLIT---', the separator of rawOutput.split(...)
SPLIT == <<"-", "-", "-", "S", "P", "L", "I", "T", "-", "-", "-">>
\* '\n---SPLIT---\n', the separator of texts.join(...)
JOINER == <<"\n">> \o SPLIT \o <<"\n">>

(***************************************************************************)
(* String primitives of JavaScript.                                        *)
(***************************************************************************)
\* the characters String.prototype.trim removes (those the model's alphabet has)
IsSpace(c) == c \in {" ", "\n", "\t", "\r"}

Min(a, b) == IF a < b THEN a ELSE b

\* s.slice(from) with a 1-based index
Drop(s, n) == SubSeq(s, n + 1, Len(s))

\* String.prototype.trim
RECURSIVE TrimLeft(_)
TrimLeft(s) ==
    IF Len(s) = 0 THEN s
    ELSE IF IsSpace(s[1]) THEN TrimLeft(Tail(s)) ELSE s

RECURSIVE TrimRight(_)
TrimRight(s) ==
    IF Len(s) = 0 THEN s
    ELSE IF IsSpace(s[Len(s)]) THEN TrimRight(SubSeq(s, 1, Len(s) - 1)) ELSE s

Trim(s) == TrimRight(TrimLeft(s))

\* String.prototype.startsWith
StartsWith(s, p) == Len(s) >= Len(p) /\ SubSeq(s, 1, Len(p)) = p

\* String.prototype.startsWith(d, p - 1): d occurs in s at the 1-based index p
OccursAt(s, d, p) == p + Len(d) - 1 <= Len(s) /\ SubSeq(s, p, p + Len(d) - 1) = d

\* the least element of a non-empty set of numbers
Least(S) == CHOOSE m \in S : \A q \in S : m <= q

\* String.prototype.indexOf, 1-based; 0 when d does not occur in s
IndexOf(s, d) ==
    CHOOSE first \in
        { IF hits = {} THEN 0 ELSE Least(hits) :
            hits \in {{p \in 1..(Len(s) - Len(d) + 1) : OccursAt(s, d, p)}} } : TRUE

\* String.prototype.split with a non-empty string separator: occurrences are
\* found left to right and do not overlap; "" splits into [""].
\* (Split binds the string and the index of the first occurrence once, so
\* that neither is evaluated anew each time it is read.)
RECURSIVE Split(_, _)
SplitAt(s, d, p) ==
    IF p = 0 THEN <<s>>
    ELSE <<SubSeq(s, 1, p - 1)>> \o Split(Drop(s, p + Len(d) - 1), d)

Split(s, d) ==
    CHOOSE pieces \in
        UNION { {SplitAt(x, d, p) : p \in {IndexOf(x, d)}} : x \in {s} } : TRUE

\* Array.prototype.join
RECURSIVE Join(_, _)
Join(parts, d) ==
    IF Len(parts) = 0 THEN <<>>
    ELSE IF Len(parts) = 1 THEN parts[1]
    ELSE parts[1] \o d \o Join(Tail(parts), d)

\* a map that forgets to trim the pieces
MapTrimOmitted(parts) == parts

\* Array.prototype.map(s => s.trim())
MapTrim(parts) ==
    CHOOSE mapped \in {[k \in 1..Len(p) |-> Trim(p[k])] : p \in {parts}} : TRUE

\* Array.prototype.filter(s => s.trim().length > 0)
RECURSIVE FilterFrom(_, _)
FilterFrom(parts, k) ==
    IF k > Len(parts) THEN <<>>
    ELSE IF Len(Trim(parts[k])) > 0
         THEN <<parts[k]>> \o FilterFrom(parts, k + 1)
         ELSE FilterFrom(parts, k + 1)

FilterNonBlank(parts) == CHOOSE kept \in {FilterFrom(p, 1) : p \in {parts}} : TRUE

(***************************************************************************)
(* translateBatch (services/ollama).                                       *)
(***************************************************************************)
\* the payload embedded in the prompt: texts.join('\n---SPLIT---\n')
Encode(texts) == Join(texts, JOINER)

\* the ways the POST /api/generate can end: fetch rejects, a non-success
\* status, a body that is not JSON, a body without a string `response`, or a
\* body whose `response` is the string `response`
OutcomeKinds == {"reject", "httpError", "badJson", "noResponseField", "ok"}

Outcome(kind, response) == [kind |-> kind, response |-> response]

\* lines 532-544 without the final fallback to the input texts
ReconcileWithoutFallback(rawOutput, translatedLines, texts) ==
    IF Len(translatedLines) # Len(texts)
    THEN CHOOSE lines \in
            { IF Len(altSplit) = Len(texts) THEN altSplit ELSE translatedLines :
                altSplit \in {FilterNonBlank(Split(rawOutput, <<"\n">>))} } : TRUE
    ELSE translatedLines

\* lines 534-544 without the second split: a wrong count of pieces gives
\* the input texts at once
ReconcileWithoutRecovery(rawOutput, translatedLines, texts) ==
    IF Len(translatedLines) # Len(texts) THEN texts ELSE translatedLines

\* lines 534-544: the count of the pieces is compared with that of the texts
Reconcile(rawOutput, translatedLines, texts) ==
    IF Len(translatedLines) # Len(texts)
    THEN CHOOSE lines \in
            { IF Len(altSplit) = Len(texts) THEN altSplit ELSE texts :
                altSplit \in {FilterNonBlank(Split(rawOutput, <<"\n">>))} } : TRUE
    ELSE translatedLines

\* lines 530-544: the body of the try block once data has been parsed
Decode(response, texts) ==
    CHOOSE lines \in
        UNION { { Reconcile(rawOutput, translatedLines, texts) :
                    translatedLines \in {MapTrim(Split(rawOutput, SPLIT))} } :
                rawOutput \in {Trim(response)} } : TRUE

\* the splits translateBatch executes on its way: nothing is split when the
\* request fails (the throw comes first); otherwise line 532 splits on the
\* separator, and line 535 splits into lines when the count of line 534 is
\* wrong. There is no test of texts.length before them.
SplitsTaken(outcome, texts) ==
    IF outcome.kind # "ok" THEN {}
    ELSE {"delimiter"} \cup
         IF Len(MapTrim(Split(Trim(outcome.response), SPLIT))) # Len(texts)
         THEN {"lines"} ELSE {}

\* a catch block that answers with an empty array
TranslateBatchCatchEmpty(outcome, texts) ==
    IF outcome.kind = "ok" THEN Decode(outcome.response, texts) ELSE <<>>

\* lines 512-548: every throw inside the try block is caught and answered
\* with the input texts
TranslateBatchResult(outcome, texts) ==
    IF outcome.kind = "ok" THEN Decode(outcome.response, texts) ELSE texts

\* a translateBatch without its try/catch: a failure rejects the promise
TranslateBatchUncaught(outcome) == outcome.kind = "ok"

\* lines 512 and 545-548: everything that can throw is inside the try block,
\* so the promise translateBatch returns is never rejected
TranslateBatchResolves(outcome) == TRUE

(***************************************************************************)
(* cleanHost (services/ollama).                                            *)
(***************************************************************************)
\* String.prototype.replace(/pattern/g, rep) for a literal pattern
ReplaceAll(s, pattern, rep) == Join(Split(s, pattern), rep)

\* the three characters between the slashes of the regular expression on
\* line 441 of the source file: U+00EF U+00BC U+0161
COLON_PATTERN == <<"U+00EF", "U+00BC", "U+0161">>

\* the full-width colon, one character
FULLWIDTH_COLON == <<"U+FF1A">>

\* a strip that removes every trailing slash
StripAllTrailingSlashes(s) ==
    LET nonSlash == {k \in 1..Len(s) : s[k] # "/"}
    IN  IF nonSlash = {} THEN <<>>
        ELSE SubSeq(s, 1, CHOOSE k \in nonSlash : \A j \in nonSlash : k >= j)

\* cleaned.replace(/\/$/, ''): one slash, at the very end
StripTrailingSlash(s) ==
    IF Len(s) > 0 /\ s[Len(s)] = "/" THEN SubSeq(s, 1, Len(s) - 1) ELSE s

\* the case folding of the i flag, for the letters the pattern has
Lower(c) ==
    CASE c = "H" -> "h" [] c = "T" -> "t" [] c = "P" -> "p" [] c = "S" -> "s"
      [] OTHER -> c

LowerAll(s) == [k \in 1..Len(s) |-> Lower(s[k])]

\* /^https?:\/\//i.test(s)
TestHttpScheme(s) ==
    LET l == LowerAll(s)
    IN  /\ StartsWith(l, <<"h", "t", "t", "p">>)
        /\ LET rest  == Drop(l, 4)
               rest2 == IF StartsWith(rest, <<"s">>) THEN Drop(rest, 1) ELSE rest
           IN  StartsWith(rest2, <<":", "/", "/">>)

HTTP_PREFIX == <<"h", "t", "t", "p", ":", "/", "/">>

\* lines 438-450
cleanHost(host) ==
    LET trimmed  == Trim(host)
        replaced == ReplaceAll(trimmed, COLON_PATTERN, <<":">>)
        stripped == StripTrailingSlash(replaced)
    IN  IF ~TestHttpScheme(stripped) THEN HTTP_PREFIX \o stripped ELSE stripped

(***************************************************************************)
(* checkConnection and fetchModels (services/ollama).                      *)
(***************************************************************************)
Digits == {"0", "1", "2", "3", "4", "5", "6", "7", "8", "9"}

AllDigits(s) == \A k \in 1..Len(s) : s[k] \in Digits

RECURSIVE SkipSlashes(_)
SkipSlashes(s) == IF StartsWith(s, <<"/">>) THEN SkipSlashes(Drop(s, 1)) ELSE s

\* s up to its first d, all of s when it has none
Before(s, d) ==
    CHOOSE head \in {IF p = 0 THEN s ELSE SubSeq(s, 1, p - 1) : p \in {IndexOf(s, d)}} : TRUE

\* s from its first d on (d excluded), empty when it has none
After(s, d) ==
    CHOOSE tail \in {IF p = 0 THEN <<>> ELSE Drop(s, p) : p \in {IndexOf(s, d)}} : TRUE

\* the host parser of the URL constructor: a host is not empty and has no
\* forbidden code point (the blank; the full-width colon, which the domain
\* mapping turns into ':'); a host whose last label is a number is an IPv4
\* address, of at most four labels, all numbers
HostParses(host) ==
    /\ Len(host) > 0
    /\ \A k \in 1..Len(host) : host[k] \notin {" ", "\n", "U+FF1A"}
    /\ \E labels \in {Split(host, <<".">>)} :
        (Len(labels[Len(labels)]) > 0 /\ AllDigits(labels[Len(labels)])) =>
            /\ Len(labels) <= 4
            /\ \A k \in 1..Len(labels) : Len(labels[k]) > 0 /\ AllDigits(labels[k])

\* new URL(s), line 462, for a string that begins with http:// or https://,
\* the only kind cleanHost returns: the slashes after the scheme are skipped,
\* the authority runs to the next slash, its host ends at the first colon
\* and what follows the colon is a port, digits only; TRUE when the
\* constructor returns, FALSE when it throws
UrlParses(s) ==
    \E authority \in {Before(SkipSlashes(After(s, <<":">>)), <<"/">>)} :
        /\ HostParses(Before(authority, <<":">>))
        /\ AllDigits(After(authority, <<":">>))

API_TAGS == <<"/", "a", "p", "i", "/", "t", "a", "g", "s">>

\* response.ok, lines 466 and 487
ResponseOk(status) == status >= 200 /\ status <= 299

\* a classification that forgets the 403 case
ClassifyWithout403(reply) ==
    IF reply.kind = "status" /\ ResponseOk(reply.status)
    THEN [ok |-> TRUE, errorType |-> "none"]
    ELSE [ok |-> FALSE, errorType |-> "NETWORK"]

\* checkConnection once its fetch has settled, lines 464-480: a rejected
\* fetch goes to the catch block
Classify(reply) ==
    IF reply.kind = "reject" THEN [ok |-> FALSE, errorType |-> "NETWORK"]
    ELSE IF ResponseOk(reply.status) THEN [ok |-> TRUE, errorType |-> "none"]
    ELSE IF reply.status = 403 THEN [ok |-> FALSE, errorType |-> "CORS"]
    ELSE [ok |-> FALSE, errorType |-> "NETWORK"]

\* the bodies GET /api/tags can answer with: not JSON; the JSON value null;
\* an object without `models`; `models` null; `models` an array (empty, or
\* of one model); `models` a string
Bodies ==
    {"notJson", "null", "noModels", "modelsNull", "modelsEmpty", "modelsList", "modelsString"}

EmptyArray == [kind |-> "array", items |-> <<>>]

\* `data.models || []`, line 489, on the parsed body: the value of
\* data.models when it is truthy, the empty array otherwise
ModelsOrEmpty(body) ==
    CASE body = "modelsList"   -> [kind |-> "array", items |-> <<"qwen">>]
      [] body = "modelsString" -> [kind |-> "string", value |-> "none"]
      [] OTHER                 -> EmptyArray

\* fetchModels once its fetch has settled, lines 487-493: a rejected fetch,
\* the throw of line 487, a rejected response.json() and the TypeError of
\* reading `models` of null all go to the catch block
ModelsOf(reply) ==
    IF reply.kind = "reject" THEN EmptyArray
    ELSE IF ~ResponseOk(reply.status) THEN EmptyArray
    ELSE IF reply.body \in {"notJson", "null"} THEN EmptyArray
    ELSE ModelsOrEmpty(reply.body)

(***************************************************************************)
(* State.                                                                  *)
(***************************************************************************)
VARIABLES
    cTexts,     \* translateBatch: the `texts` argument
    cOutcome,   \* translateBatch: how the POST /api/generate ended
    cResult,    \* translateBatch: the array the promise resolved to
    cPc,        \* translateBatch: "called", "replied" or "returned"
    hIn,        \* cleanHost: the `host` argument
    hOut,       \* cleanHost: the returned string
    hPc,        \* cleanHost: "called" or "returned"
    kCall,      \* the client function running: "checkConnection" or "fetchModels"
    kPc,        \* its position: "called", "fetching" or "returned"
    kFetches,   \* the GET /api/tags requests it has issued
    kReply,     \* how its request ended
    kResult,    \* what its promise resolved to
    state,              \* useState<AppState>
    config,             \* useState<OllamaConfig>
    models,             \* useState<OllamaModel[]>, the names
    connectionStatus,   \* useState<ConnectionResult>
    isChecking,         \* useState(false)
    subtitleBlocks,     \* useState<SubtitleBlock[]>: an array of object references
    stats,              \* useState<TranslationStats>
    loadPc,             \* the load effect: "timer", "checking", "fetching", "done"
    readers,            \* per file: "none", "reading" (FileReader pending), "loaded"
    fileContent,        \* per file: its content, as the blocks between blank lines
    fileLines,          \* per file: the number of subtitle blocks its content holds
    heap,               \* per file: the SubtitleBlock objects parseSRT created
    runs,               \* per file: the locals of its startTranslation call
    net,                \* the POST /api/generate requests in flight
    log,                \* per file: the batches sent so far and how each ended
    now,                \* Date.now()
    loads,              \* the load() calls of the load effect, with their closures
    pending             \* the setTimeout of the load effect, with its closure

codecVars == <<cTexts, cOutcome, cResult, cPc>>
hostVars == <<hIn, hOut, hPc>>
clientVars == <<kCall, kPc, kFetches, kReply, kResult>>
configVars == <<config, models, connectionStatus, isChecking, loadPc>>
docVars == <<subtitleBlocks, stats, heap>>
runVars == <<readers, fileContent, fileLines, runs, net, log>>
effectVars == <<loads, pending>>
appVars == <<state, configVars, docVars, runVars, now, effectVars>>

vars == <<codecVars, hostVars, clientVars, appVars>>

(***************************************************************************)
(* Inputs of the codec specification.                                      *)
(***************************************************************************)
\* all sequences of at most n elements of S
SeqsUpTo(S, n) == UNION {[1..k -> S] : k \in 0..n}

RECURSIVE Flatten(_)
Flatten(parts) == IF Len(parts) = 0 THEN <<>> ELSE Head(parts) \o Flatten(Tail(parts))

\* subtitle texts: empty, single line, leading blank, two lines, one that
\* contains the separator itself
TextSet ==
    { <<>>, <<"a">>, <<" ", "a">>, <<"a", "\n", "b">>, <<"x">> \o SPLIT \o <<"y">> }

\* the pieces a backend response is assembled from
ChunkSet == { <<"a">>, <<" ">>, <<"\n">>, SPLIT, <<"-">> }

Responses == {Flatten(c) : c \in SeqsUpTo(ChunkSet, MaxChunks)}

\* a batch of three texts, and a response of two pieces and three lines
ScenarioTexts == << <<"a">>, <<"a">>, <<"a">> >>
ScenarioResponse == <<"a", "\n", "a">> \o SPLIT \o <<"a", "\n", "a">>

CodecTexts == SeqsUpTo(TextSet, MaxTexts) \cup {ScenarioTexts}

CodecResponses == Responses \cup {ScenarioResponse}

NoOutcome == Outcome("none", <<>>)

CodecIdle == cTexts = <<>> /\ cOutcome = NoOutcome /\ cResult = <<>> /\ cPc = "idle"

HostIdle == hIn = <<>> /\ hOut = <<>> /\ hPc = "idle"

NoReply == [kind |-> "none", status |-> 0, body |-> "none"]

NoResult == [kind |-> "none"]

ClientIdle ==
    /\ kCall = "none"
    /\ kPc = "idle"
    /\ kFetches = 0
    /\ kReply = NoReply
    /\ kResult = NoResult

\* a load() slot not in use, and no timer set
NoLoad == [host |-> <<>>, model |-> "", pc |-> "free"]

NoTimer == [set |-> FALSE, host |-> <<>>, model |-> ""]

EffectIdle ==
    /\ loads = [i \in 1..MaxLoads |-> NoLoad]
    /\ pending = NoTimer

(***************************************************************************)
(* The application (App.tsx).                                              *)
(***************************************************************************)
\* the files the user can pick in the upload step
Files == {"A", "B"}

\* a block of a file, as parseSRT looks at it: the number of its lines, and
\* whether its second line holds 'HH:MM:SS,mmm --> HH:MM:SS,mmm'
Entry == [lines |-> 3, timed |-> TRUE]
Untimed == [lines |-> 3, timed |-> FALSE]
Prose == [lines |-> 1, timed |-> FALSE]

\* a subtitle file of n entries
WellFormed(n) == [k \in 1..n |-> Entry]

\* what the files can hold: a text that is no subtitle file at all, a
\* subtitle file of one full batch one of whose blocks has lost its timing
\* line, and a subtitle file of several batches
Contents ==
    { <<Prose>>, <<Untimed>> \o WellFormed(BATCH_SIZE), WellFormed(MaxLines) }

\* parseSRT, lines 410-427: the blocks that are kept
IsSubtitle(block) == block.lines >= 3 /\ block.timed
KeptBlocks(content) == SelectSeq(content, IsSubtitle)

\* parseSRT has no throw statement and calls string and array methods on
\* strings and arrays only: whatever the content, it returns
ParseThrows(content) == FALSE

DEFAULT_HOST == HTTP_PREFIX \o <<"1", "2", "7", ".", "0", ".", "0", ".", "1", ":", "1", "1", "4", "3", "4">>

\* null, for startTime and endTime
Null == 0

\* the text of the k-th block of a file: one line, two lines, a leading blank
SourceText(k) ==
    CASE k % 3 = 1 -> <<"a">>
      [] k % 3 = 2 -> <<"b", "\n", "c">>
      [] OTHER     -> <<" ", "d">>

\* parseSRT, lines 417-423: the object pushed for the k-th block
ParsedBlock(k) ==
    [id |-> k, startTime |-> 2 * k, endTime |-> 2 * k + 1,
     originalText |-> SourceText(k), translatedText |-> <<>>]

\* parseSRT on a file of n well-formed blocks
ParsedBlocks(n) == [k \in 1..n |-> ParsedBlock(k)]

\* parseSRT, lines 401-429: one object for each block that is kept
parseSRT(content) == ParsedBlocks(Len(KeptBlocks(content)))

\* a reference to the k-th object parsed from file f
Ref(f, k) == [file |-> f, idx |-> k]
Refs(f, n) == [k \in 1..n |-> Ref(f, k)]

NoRun == [pc |-> "none", i |-> 0, currentProcessed |-> 0, blocks |-> <<>>, newBlocks |-> <<>>]

AppIdle ==
    /\ state = "CONFIG"
    /\ config = [host |-> DEFAULT_HOST, model |-> ""]
    /\ models = <<>>
    /\ connectionStatus = [ok |-> FALSE, errorType |-> "none"]
    /\ isChecking = FALSE
    /\ subtitleBlocks = <<>>
    /\ stats = [totalLines |-> 0, processedLines |-> 0, startTime |-> Null,
                endTime |-> Null, elapsedSeconds |-> 0]
    /\ loadPc = "timer"
    /\ readers = [f \in Files |-> "none"]
    /\ fileContent = [f \in Files |-> <<>>]
    /\ fileLines = [f \in Files |-> 0]
    /\ heap = [f \in Files |-> <<>>]
    /\ runs = [f \in Files |-> NoRun]
    /\ net = {}
    /\ log = [f \in Files |-> <<>>]
    /\ now = 1

Init == AppIdle /\ CodecIdle /\ HostIdle /\ ClientIdle /\ EffectIdle

frame == <<codecVars, hostVars, clientVars, effectVars>>

(***************************************************************************)
(* The load effect, lines 34-61, for the host the application starts with. *)
(***************************************************************************)
ModelLists == { <<>>, <<"qwen">> }

\* the 500 ms timer fires: load() runs up to `await checkConnection`
LoadTimerFires ==
    /\ loadPc = "timer"
    /\ isChecking' = TRUE
    /\ loadPc' = "checking"
    /\ UNCHANGED <<state, config, models, connectionStatus, docVars, runVars, now, frame>>

\* checkConnection resolves; on ok, load() runs up to `await fetchModels`
CheckConnectionReturns ==
    /\ loadPc = "checking"
    /\ \E status \in { [ok |-> TRUE, errorType |-> "none"],
                       [ok |-> FALSE, errorType |-> "CORS"],
                       [ok |-> FALSE, errorType |-> "NETWORK"] } :
        /\ connectionStatus' = status
        /\ IF status.ok
           THEN /\ loadPc' = "fetching"
                /\ UNCHANGED <<models, isChecking>>
           ELSE /\ models' = <<>>
                /\ isChecking' = FALSE
                /\ loadPc' = "done"
    /\ UNCHANGED <<state, config, docVars, runVars, now, frame>>

\* fetchModels resolves; load() runs to its end
FetchModelsReturns ==
    /\ loadPc = "fetching"
    /\ \E availableModels \in ModelLists :
        /\ models' = availableModels
        /\ config' = IF Len(availableModels) > 0 /\ config.model = ""
                     THEN [config EXCEPT !.model = availableModels[1]]
                     ELSE config
    /\ isChecking' = FALSE
    /\ loadPc' = "done"
    /\ UNCHANGED <<state, connectionStatus, docVars, runVars, now, frame>>

\* the <select> of the configuration step, lines 211-216
SelectModel ==
    /\ state = "CONFIG"
    /\ connectionStatus.ok
    /\ Len(models) > 0
    /\ \E k \in 1..Len(models) : config' = [config EXCEPT !.model = models[k]]
    /\ UNCHANGED <<state, models, connectionStatus, isChecking, loadPc,
                   docVars, runVars, now, frame>>

\* the Continue button, lines 234-237
ClickContinue ==
    /\ state = "CONFIG"
    /\ config.model # ""
    /\ state' = "UPLOAD"
    /\ UNCHANGED <<configVars, docVars, runVars, now, frame>>

\* the Back to Settings button, line 261
ClickBack ==
    /\ state = "UPLOAD"
    /\ state' = "CONFIG"
    /\ UNCHANGED <<configVars, docVars, runVars, now, frame>>

\* time passes
Tick ==
    /\ now < MaxTime
    /\ now' = now + 1
    /\ UNCHANGED <<state, configVars, docVars, runVars, frame>>

\* the callback of the interval of the timer effect, lines 65-71; the
\* interval exists while the state is PROCESSING and stats.endTime is not
\* set. Elapsed time is kept in the unit of `now`.
IntervalFires ==
    /\ state = "PROCESSING"
    /\ stats.endTime = Null
    /\ stats' = [stats EXCEPT !.elapsedSeconds =
                    IF stats.startTime # Null THEN now - stats.startTime ELSE 0]
    /\ UNCHANGED <<state, configVars, subtitleBlocks, heap, runVars, now, frame>>

\* (a / b).toFixed(1), as a number of tenths, for b > 0
ToFixed1(a, b) == (20 * a + b) \div (2 * b)

\* what the PROCESSING and COMPLETED steps render, lines 267-268, 282 and
\* 298: the elapsed time shown is the stored stats.elapsedSeconds, and the
\* speed is computed from it (in tenths; "0" when it is not positive)
elapsedShown == stats.elapsedSeconds
speed ==
    IF stats.elapsedSeconds > 0
    THEN ToFixed1(stats.processedLines, stats.elapsedSeconds)
    ELSE 0

\* the Download button is rendered in the COMPLETED state only, line 311
DownloadAvailable == state = "COMPLETED"

(***************************************************************************)
(* handleFileChange and startTranslation, lines 82-134.                    *)
(***************************************************************************)
\* the file input's onChange, lines 82-86 and 100: a FileReader starts
\* reading the picked file; the input exists in the upload step only
HandleFileChange(f) ==
    /\ state = "UPLOAD"
    /\ readers[f] = "none"
    /\ \E content \in Contents :
        /\ fileContent' = [fileContent EXCEPT ![f] = content]
        /\ fileLines' = [fileLines EXCEPT ![f] = Len(KeptBlocks(content))]
    /\ readers' = [readers EXCEPT ![f] = "reading"]
    /\ UNCHANGED <<state, configVars, docVars, runs, net, log, now, frame>>

\* a slice that takes one block too many
BatchEndOffByOne(i, n) == Min(i + BATCH_SIZE + 1, n)

\* blocks.slice(i, i + BATCH_SIZE) ends before this 0-based index
BatchEnd(i, n) == Min(i + BATCH_SIZE, n)

\* lines 112-113: the originalText of the blocks of the batch starting at i
BatchTexts(hp, blocks, i) ==
    [k \in 1..(BatchEnd(i, Len(blocks)) - i) |->
        hp[blocks[i + k].file][blocks[i + k].idx].originalText]

\* a step that passes over one entry
NextIndexSkips(i) == i + BATCH_SIZE + 1

\* a step that comes back on the last entry of the batch
NextIndexOverlaps(i) == i + BATCH_SIZE - 1

\* the for statement's i += BATCH_SIZE
NextIndex(i) == i + BATCH_SIZE

\* the for loop from its test on, lines 111-117 and 131-133: either the next
\* batch is sent and the function is suspended at the await, or the run ends.
\* st, hp, lg: stats, heap and log as the caller's updates left them.
LoopFrom(f, i, cur, blocks, newBlocks, st, hp, lg) ==
    IF i < Len(blocks)
    THEN /\ runs' = [runs EXCEPT ![f] =
                        [pc |-> "await", i |-> i, currentProcessed |-> cur,
                         blocks |-> blocks, newBlocks |-> newBlocks]]
         /\ net' = {q \in net : q.file # f}
                     \cup {[file |-> f, from |-> i, texts |-> BatchTexts(hp, blocks, i)]}
         /\ log' = [lg EXCEPT ![f] =
                        Append(@, [from |-> i, to |-> BatchEnd(i, Len(blocks)),
                                   status |-> "sent", response |-> <<>>])]
         /\ stats' = st
         /\ state' = "PROCESSING"
    ELSE /\ runs' = [runs EXCEPT ![f] =
                        [pc |-> "done", i |-> i, currentProcessed |-> cur,
                         blocks |-> blocks, newBlocks |-> newBlocks]]
         /\ net' = {q \in net : q.file # f}
         /\ log' = lg
         /\ stats' = [st EXCEPT !.endTime = now]
         /\ state' = "COMPLETED"

\* reader.onload, lines 87-99, with the call of startTranslation up to its
\* first await (lines 104-117), or to its end when the document is empty
ReaderOnload(f) ==
    /\ readers[f] = "reading"
    /\ readers' = [readers EXCEPT ![f] = "loaded"]
    /\ UNCHANGED <<configVars, fileContent, fileLines, now, frame>>
    /\ IF ParseThrows(fileContent[f])
       THEN \* the catch block, lines 95-98
            /\ state' = "ERROR"
            /\ UNCHANGED <<docVars, runs, net, log>>
       ELSE \E hp \in {[heap EXCEPT ![f] = parseSRT(fileContent[f])]} :
            LET n      == Len(hp[f])
                parsed == Refs(f, n)
                st     == [stats EXCEPT !.totalLines = n, !.startTime = now,
                                        !.processedLines = 0]
            IN  /\ heap' = hp
                /\ subtitleBlocks' = parsed
                /\ LoopFrom(f, 0, 0, parsed, parsed, st, hp, log)

\* what the backend of the application answers to a batch: one of the three
\* failures, or a translation of every text, joined as the prompt asks
Translation(texts) == [k \in 1..Len(texts) |-> <<"z">> \o texts[k]]

AppOutcomes(texts) ==
    {Outcome(kind, <<>>) : kind \in {"reject", "httpError", "badJson"}}
        \cup {Outcome("ok", Encode(Translation(texts)))}

\* a write that is lost
WriteNothing(block, text) == block

\* a write that lands in the wrong field
WriteOriginal(block, text) == [block EXCEPT !.originalText = text]

\* line 122
WriteTranslated(block, text) == [block EXCEPT !.translatedText = text]

\* a merge that writes every text one entry too far
MergeBatchShifted(hp, f, newBlocks, i, translatedTexts) ==
    [hp EXCEPT ![f] =
        [k \in 1..Len(hp[f]) |->
            IF k - 2 - i \in 0..(Len(translatedTexts) - 1)
            THEN [hp[f][k] EXCEPT !.translatedText = translatedTexts[k - 1 - i]]
            ELSE hp[f][k]]]

\* lines 120-124: translatedTexts.forEach over the objects newBlocks refers to
MergeBatch(hp, f, newBlocks, i, translatedTexts) ==
    [hp EXCEPT ![f] =
        [k \in 1..Len(hp[f]) |->
            IF /\ \E index \in 0..(Len(translatedTexts) - 1) :
                    /\ i + index < Len(newBlocks)
                    /\ newBlocks[i + index + 1] = Ref(f, k)
            THEN WriteTranslated(hp[f][k],
                    translatedTexts[(CHOOSE index \in 0..(Len(translatedTexts) - 1) :
                                        /\ i + index < Len(newBlocks)
                                        /\ newBlocks[i + index + 1] = Ref(f, k)) + 1])
            ELSE hp[f][k]]]

\* translateBatch resolves and startTranslation resumes after its await,
\* lines 117-129, then goes round the loop to the next await or to its end
BatchReturns(f) ==
    /\ runs[f].pc = "await"
    /\ UNCHANGED <<configVars, readers, fileContent, fileLines, now, frame>>
    /\ \E q \in {q \in net : q.file = f} :
       \E outcome \in AppOutcomes(q.texts) :
       \E translatedTexts \in {TranslateBatchResult(outcome, q.texts)} :
       \E hp \in {MergeBatch(heap, f, runs[f].newBlocks, runs[f].i, translatedTexts)} :
       \E logged \in {[log EXCEPT ![f][Len(log[f])] =
                        [@ EXCEPT !.status = IF outcome.kind = "ok" THEN "ok" ELSE "failed",
                                  !.response = outcome.response]]} :
        LET r   == runs[f]
            cur == r.currentProcessed + Len(q.texts)
            st  == [stats EXCEPT !.processedLines = cur]
        IN  IF TranslateBatchResolves(outcome)
            THEN /\ heap' = hp
                 /\ subtitleBlocks' = r.newBlocks
                 /\ LoopFrom(f, NextIndex(r.i), cur, r.blocks, r.newBlocks, st, hp, logged)
            ELSE \* a rejected await throws out of startTranslation
                 /\ runs' = [runs EXCEPT ![f].pc = "thrown"]
                 /\ net' = {p \in net : p.file # f}
                 /\ log' = logged
                 /\ UNCHANGED <<state, docVars>>

Next ==
    \/ LoadTimerFires
    \/ CheckConnectionReturns
    \/ FetchModelsReturns
    \/ SelectModel
    \/ ClickContinue
    \/ ClickBack
    \/ Tick
    \/ IntervalFires
    \/ \E f \in Files : HandleFileChange(f)
    \/ \E f \in Files : ReaderOnload(f)
    \/ \E f \in Files : BatchReturns(f)

Spec == Init /\ [][Next]_vars

\* the browser delivers the load event of every read it started, and every
\* backend call is taken to return; a promise that settles has its
\* continuation run
FairSpec ==
    /\ Spec
    /\ \A f \in Files : WF_vars(ReaderOnload(f)) /\ WF_vars(BatchReturns(f))

(***************************************************************************)
(* C2                                                                      *)
(***************************************************************************)
\* the texts of the batch a log entry stands for
LoggedTexts(f, e) == [k \in 1..(e.to - e.from) |-> heap[f][e.from + k].originalText]

\* the translatedText of the blocks of the batch a log entry stands for
LoggedTranslations(f, e) == [k \in 1..(e.to - e.from) |-> heap[f][e.from + k].translatedText]

Started(f) == runs[f].pc # "none"
Finished(f) == runs[f].pc = "done"

\* the number of batches a document of n blocks takes
BatchCount(n) == (n + BATCH_SIZE - 1) \div BATCH_SIZE

FailedBatchKeepsOriginals ==
    \A f \in Files : \A k \in 1..Len(log[f]) :
        LET e == log[f][k]
        IN  /\ e.status = "failed" => LoggedTranslations(f, e) = LoggedTexts(f, e)
            /\ e.status = "ok" =>
                  LoggedTranslations(f, e) = Decode(e.response, LoggedTexts(f, e))
            /\ e.status = "sent" => k = Len(log[f]) /\ runs[f].pc = "await"

AllBatchesAnswered ==
    \A f \in Files : Finished(f) =>
        /\ Len(log[f]) = BatchCount(Len(runs[f].blocks))
        /\ \A k \in 1..Len(log[f]) : log[f][k].status \in {"failed", "ok"}

HasFailedBatch(f) == \E k \in 1..Len(log[f]) : log[f][k].status = "failed"

\* C2: a backend failure on a batch leaves that batch's entries with
\* translatedText equal to originalText, the other batches are still sent and
\* merged as decoded, and the run still reaches COMPLETED.
C2_FailureNeverAborts ==
    /\ [](FailedBatchKeepsOriginals /\ AllBatchesAnswered)
    /\ \A f \in Files : HasFailedBatch(f) ~> (Finished(f) /\ state = "COMPLETED")

C2_Witness ==
    \E f \in Files :
        /\ Finished(f)
        /\ Len(log[f]) = 3
        /\ log[f][1].status = "ok"
        /\ log[f][2].status = "failed"
        /\ log[f][3].status = "ok"
        /\ heap[f][1].translatedText = <<"z", "a">>
        /\ heap[f][BATCH_SIZE + 1].translatedText = heap[f][BATCH_SIZE + 1].originalText
        /\ heap[f][2 * BATCH_SIZE + 1].translatedText # heap[f][2 * BATCH_SIZE + 1].originalText
        /\ state = "COMPLETED"

(***************************************************************************)
(* C4                                                                      *)
(***************************************************************************)
\* the batches of a log follow one another from index 0 without gap or overlap
Contiguous(l) ==
    /\ Len(l) > 0 => l[1].from = 0
    /\ \A k \in 1..Len(l) : l[k].from < l[k].to /\ l[k].to - l[k].from <= BATCH_SIZE
    /\ \A k \in 1..(Len(l) - 1) : l[k + 1].from = l[k].to

\* C4: the batches a run sends are contiguous, disjoint, at most BATCH_SIZE
\* long and sent in increasing index order, and once the run is over every
\* entry index lies in exactly one of them.
C4_BatchesPartition ==
    \A f \in Files :
        LET l == log[f]
            n == Len(runs[f].blocks)
        IN  /\ Contiguous(l)
            /\ \A k \in 1..Len(l) : l[k].to <= n
            /\ \A q \in net : q.file = f =>
                  /\ l[Len(l)].from = q.from
                  /\ l[Len(l)].to = q.from + Len(q.texts)
            /\ Finished(f) =>
                  \A x \in 0..(n - 1) :
                      Cardinality({k \in 1..Len(l) : l[k].from <= x /\ x < l[k].to}) = 1

C4_Witness ==
    \E f \in Files :
        /\ Finished(f)
        /\ Len(runs[f].blocks) = MaxLines
        /\ Len(log[f]) = 3
        /\ log[f][3].from = 2 * BATCH_SIZE
        /\ log[f][3].to = MaxLines

(***************************************************************************)
(* C5                                                                      *)
(***************************************************************************)
NoRunInProgress == \A f \in Files : runs[f].pc # "await" /\ readers[f] # "reading"

\* C5 as claimed: processedLines never decreases, and once the run is over it
\* equals totalLines.
C5_ProcessedMonotone ==
    /\ [][stats'.processedLines >= stats.processedLines]_vars
    /\ []((state = "COMPLETED" /\ NoRunInProgress)
            => stats.processedLines = stats.totalLines)

(***************************************************************************)
(* C6                                                                      *)
(***************************************************************************)
\* C6 as claimed: startTranslation is never entered while another run is in
\* progress, and a document that is COMPLETED is not PROCESSING again.
C6_NoReentrancy ==
    /\ [][\A f \in Files :
            (~Started(f) /\ Started(f)') =>
                \A g \in Files \ {f} : runs[g].pc # "await"]_vars
    /\ [][state = "COMPLETED" => state' = "COMPLETED"]_vars

(***************************************************************************)
(* C7                                                                      *)
(***************************************************************************)
\* C7 as claimed: at most one POST /api/generate is in flight at any moment.
C7_OneCallInFlight == Cardinality(net) <= 1

(***************************************************************************)
(* C8                                                                      *)
(***************************************************************************)
RunExhausted(f) ==
    /\ runs[f].i >= Len(runs[f].blocks)
    /\ runs[f].currentProcessed = Len(runs[f].blocks)
    /\ \A q \in net : q.file # f
    /\ stats.endTime # Null

\* C8: with every backend call returning, a run that has started ends, and
\* it ends in one way only: the document exhausted, endTime set, COMPLETED.
C8_RunCompletes ==
    /\ \A f \in Files : (runs[f].pc = "await") ~> (Finished(f) /\ state = "COMPLETED")
    /\ [](\A f \in Files : Started(f) => runs[f].pc \in {"await", "done"})
    /\ [](\A f \in Files : Finished(f) => RunExhausted(f))
    /\ [][\A f \in Files : (~Finished(f) /\ Finished(f)') =>
            (state' = "COMPLETED" /\ stats'.endTime = now)]_vars

C8_Witness ==
    \E f \in Files :
        /\ Finished(f)
        /\ runs[f].currentProcessed = MaxLines
        /\ state = "COMPLETED"
        /\ stats.endTime = MaxTime

(***************************************************************************)
(* C9                                                                      *)
(***************************************************************************)
\* the fields of a block a run must leave alone
Immutable(b) == <<b.id, b.startTime, b.endTime, b.originalText>>

\* C9: from the start of a run on, its document keeps its length and order,
\* its blocks keep id, startTime, endTime and originalText, and what the run
\* publishes as subtitleBlocks is that same sequence of blocks.
C9_OnlyTranslatedTextWritten ==
    [][\A f \in Files : Started(f) =>
        /\ runs'[f].blocks = runs[f].blocks
        /\ runs'[f].newBlocks = runs[f].newBlocks
        /\ Len(heap'[f]) = Len(heap[f])
        /\ \A k \in 1..Len(heap[f]) : Immutable(heap'[f][k]) = Immutable(heap[f][k])
        /\ runs'[f].currentProcessed # runs[f].currentProcessed =>
              /\ subtitleBlocks' = runs[f].newBlocks
              /\ subtitleBlocks' = Refs(f, fileLines[f])]_vars

C9_Witness ==
    \E f \in Files :
        /\ runs[f].pc = "await"
        /\ runs[f].i = BATCH_SIZE
        /\ heap[f][1].translatedText = <<"z", "a">>
        /\ heap[f][1].originalText = <<"a">>
        /\ heap[f][BATCH_SIZE + 1].translatedText = <<>>
        /\ subtitleBlocks = Refs(f, Len(heap[f]))


InitCodec ==
    /\ cTexts \in CodecTexts
    /\ cOutcome = NoOutcome
    /\ cResult = <<>>
    /\ cPc = "called"
    /\ HostIdle
    /\ ClientIdle
    /\ AppIdle
    /\ EffectIdle

\* the backend answers with any failure or any response string
CodecReply ==
    /\ cPc = "called"
    /\ \E kind \in OutcomeKinds \ {"ok"} : cOutcome' = Outcome(kind, <<>>)
    /\ cPc' = "replied"
    /\ UNCHANGED <<cTexts, cResult, hostVars, clientVars, appVars>>

CodecReplyOk ==
    /\ cPc = "called"
    /\ \E r \in CodecResponses : cOutcome' = Outcome("ok", r)
    /\ cPc' = "replied"
    /\ UNCHANGED <<cTexts, cResult, hostVars, clientVars, appVars>>

\* the backend answers with the payload it was sent
CodecEcho ==
    /\ cPc = "called"
    /\ cOutcome' = Outcome("ok", Encode(cTexts))
    /\ cPc' = "replied"
    /\ UNCHANGED <<cTexts, cResult, hostVars, clientVars, appVars>>

\* translateBatch resolves
CodecReturn ==
    /\ cPc = "replied"
    /\ cResult' = TranslateBatchResult(cOutcome, cTexts)
    /\ cPc' = "returned"
    /\ UNCHANGED <<cTexts, cOutcome, hostVars, clientVars, appVars>>

NextCodec == CodecReply \/ CodecReplyOk \/ CodecEcho \/ CodecReturn

SpecCodec == InitCodec /\ [][NextCodec]_vars

(***************************************************************************)
(* C1                                                                      *)
(***************************************************************************)
\* the two counts translateBatch compares with texts.length
DelimiterCount(response) == Len(Split(Trim(response), SPLIT))
LineCount(response) == Len(FilterNonBlank(Split(Trim(response), <<"\n">>)))

\* C1: translateBatch always returns as many strings as it was given, and
\* when neither the split on '---SPLIT---' nor the split into non-blank lines
\* has that count it returns the input texts themselves, in order.
C1_LengthPreserved ==
    cPc = "returned" =>
        /\ Len(cResult) = Len(cTexts)
        /\ (/\ cOutcome.kind = "ok"
            /\ DelimiterCount(cOutcome.response) # Len(cTexts)
            /\ LineCount(cOutcome.response) # Len(cTexts)) => cResult = cTexts

C1_Witness ==
    /\ cPc = "returned"
    /\ cOutcome.kind = "ok"
    /\ Len(cTexts) = 2
    /\ DelimiterCount(cOutcome.response) = 3
    /\ LineCount(cOutcome.response) = 1
    /\ cResult = cTexts

(***************************************************************************)
(* C3                                                                      *)
(***************************************************************************)
Echoed == cPc = "returned" /\ cOutcome = Outcome("ok", Encode(cTexts))

\* C3 as claimed: decoding the encoded payload of any non-empty sequence of
\* segments gives the segments back.
C3_RoundTripAll == (Echoed /\ Len(cTexts) > 0) => cResult = cTexts

Trimmed(s) == Len(s) = 0 \/ (~IsSpace(s[1]) /\ ~IsSpace(s[Len(s)]))
HasDelimiter(s) == \E p \in 1..Len(s) : StartsWith(Drop(s, p - 1), SPLIT)

\* C3 amended: decoding the encoded payload gives the segments back when no
\* segment starts or ends with white space and none contains '---SPLIT---'.
C3_RoundTripTrimmed ==
    (/\ Echoed
     /\ Len(cTexts) > 0
     /\ \A k \in 1..Len(cTexts) : Trimmed(cTexts[k]) /\ ~HasDelimiter(cTexts[k]))
        => cResult = cTexts

C3_Witness ==
    /\ Echoed
    /\ cTexts = << <<"a", "\n", "b">>, <<"a">> >>
    /\ cResult = cTexts

(***************************************************************************)
(* The cleanHost specification.                                            *)
(***************************************************************************)
HOST_127 == <<"1", "2", "7", ".", "0", ".", "0", ".", "1", ":", "1", "1", "4", "3", "4">>
HOST_NAME == <<"h", "o", "s", "t">>

\* the pieces a host address is assembled from
HostChunkSet ==
    { HTTP_PREFIX,
      <<"h", "t", "t", "p", "s", ":", "/", "/">>,
      <<"H", "T", "T", "P", ":", "/", "/">>,
      <<"f", "t", "p", ":", "/", "/">>,
      HOST_NAME, HOST_127, <<"/">>, <<" ">>, COLON_PATTERN, FULLWIDTH_COLON }

Hosts == {Flatten(c) : c \in SeqsUpTo(HostChunkSet, MaxHostChunks)}

InitHost ==
    /\ hIn \in Hosts
    /\ hOut = <<>>
    /\ hPc = "called"
    /\ CodecIdle
    /\ ClientIdle
    /\ AppIdle
    /\ EffectIdle

CleanHostReturn ==
    /\ hPc = "called"
    /\ hOut' = cleanHost(hIn)
    /\ hPc' = "returned"
    /\ UNCHANGED <<hIn, codecVars, clientVars, appVars>>

NextHost == CleanHostReturn

SpecHost == InitHost /\ [][NextHost]_vars

(***************************************************************************)
(* C10                                                                     *)
(***************************************************************************)
Contains(s, d) == \E p \in 1..Len(s) : StartsWith(Drop(s, p - 1), d)

\* addresses without either spelling of the full-width colon
PlainColons(s) == ~Contains(s, COLON_PATTERN) /\ ~Contains(s, FULLWIDTH_COLON)

Letters == {"a", "f", "h", "o", "p", "s", "t", "H", "P", "S", "T"}

\* s begins with a scheme: letters, then '://'
CarriesScheme(s) ==
    \E n \in 1..Len(s) :
        /\ \A k \in 1..n : s[k] \in Letters
        /\ StartsWith(Drop(s, n), <<":", "/", "/">>)

\* the address once trimmed and relieved of one trailing slash
Body(s) ==
    LET t == Trim(s)
    IN  IF Len(t) > 0 /\ t[Len(t)] = "/" THEN SubSeq(t, 1, Len(t) - 1) ELSE t

\* C10 as claimed: the prefix is added exactly when the address carries no
\* scheme, so an address with a scheme never gets a second one.
C10_PrefixIffNoScheme ==
    (hPc = "returned" /\ PlainColons(hIn)) =>
        hOut = IF CarriesScheme(Body(hIn)) THEN Body(hIn) ELSE HTTP_PREFIX \o Body(hIn)

BeginsHttp(s) ==
    \/ LowerAll(SubSeq(s, 1, Min(7, Len(s)))) = HTTP_PREFIX
    \/ LowerAll(SubSeq(s, 1, Min(8, Len(s)))) = <<"h", "t", "t", "p", "s", ":", "/", "/">>

\* C10 amended: cleanHost trims, strips exactly one trailing slash, and adds
\* 'http://' exactly when what is left does not begin with 'http://' or
\* 'https://' in any letter case; '127.0.0.1:11434' and 'http://host/' come
\* out as 'http://127.0.0.1:11434' and 'http://host'.
C10_PrefixIffNotHttp ==
    (hPc = "returned" /\ PlainColons(hIn)) =>
        /\ hOut = IF BeginsHttp(Body(hIn)) THEN Body(hIn) ELSE HTTP_PREFIX \o Body(hIn)
        /\ hIn = HOST_127 => hOut = HTTP_PREFIX \o HOST_127
        /\ hIn = HTTP_PREFIX \o HOST_NAME \o <<"/">> => hOut = HTTP_PREFIX \o HOST_NAME

C10_Witness ==
    /\ hPc = "returned"
    /\ hIn = HOST_NAME \o <<"/">> \o <<"/">>
    /\ hOut = HTTP_PREFIX \o HOST_NAME \o <<"/">>

(***************************************************************************)
(* C11                                                                     *)
(***************************************************************************)
\* C11 as claimed: an address that holds the full-width colon U+FF1A comes
\* out of cleanHost with every one of them replaced by ':', that is, as the
\* same address written with ASCII colons comes out.
C11_FullWidthColonReplaced ==
    (hPc = "returned" /\ Contains(hIn, FULLWIDTH_COLON)) =>
        /\ ~Contains(hOut, FULLWIDTH_COLON)
        /\ hOut = cleanHost(ReplaceAll(hIn, FULLWIDTH_COLON, <<":">>))

(***************************************************************************)
(* The client specification: one call of checkConnection or of             *)
(* fetchModels, on every address and every way its request can end.        *)
(***************************************************************************)
Statuses == {200, 204, 301, 403, 404, 500}

\* how a GET of `url` can end: fetch rejects (always possible, and the only
\* way when the address does not parse), or a response arrives
Replies(url) ==
    {[kind |-> "reject", status |-> 0, body |-> "none"]}
        \cup IF UrlParses(url)
             THEN {[kind |-> "status", status |-> st, body |-> b] :
                        st \in Statuses, b \in Bodies}
             ELSE {}

InitClient ==
    /\ hIn \in Hosts
    /\ hOut = <<>>
    /\ hPc = "called"
    /\ kCall \in {"checkConnection", "fetchModels"}
    /\ kPc = "called"
    /\ kFetches = 0
    /\ kReply = NoReply
    /\ kResult = NoResult
    /\ CodecIdle
    /\ AppIdle
    /\ EffectIdle

\* checkConnection up to its await, lines 458-464
CheckConnectionStarts ==
    /\ kCall = "checkConnection"
    /\ kPc = "called"
    /\ \E sanitized \in {cleanHost(hIn)} :
        /\ hOut' = sanitized
        /\ hPc' = "returned"
        /\ IF UrlParses(sanitized)
           THEN /\ kFetches' = kFetches + 1
                /\ kPc' = "fetching"
                /\ UNCHANGED kResult
           ELSE /\ kResult' = [ok |-> FALSE, errorType |-> "INVALID_URL"]
                /\ kPc' = "returned"
                /\ UNCHANGED kFetches
    /\ UNCHANGED <<hIn, kCall, kReply, codecVars, appVars>>

\* the fetch of checkConnection settles, lines 464-480
CheckConnectionSettles ==
    /\ kCall = "checkConnection"
    /\ kPc = "fetching"
    /\ \E reply \in Replies(hOut \o API_TAGS) :
        /\ kReply' = reply
        /\ kResult' = Classify(reply)
    /\ kPc' = "returned"
    /\ UNCHANGED <<hostVars, kCall, kFetches, codecVars, appVars>>

\* fetchModels up to its first await, lines 484-486
FetchModelsStarts ==
    /\ kCall = "fetchModels"
    /\ kPc = "called"
    /\ hOut' = cleanHost(hIn)
    /\ hPc' = "returned"
    /\ kFetches' = kFetches + 1
    /\ kPc' = "fetching"
    /\ UNCHANGED <<hIn, kCall, kReply, kResult, codecVars, appVars>>

\* the fetch of fetchModels settles, lines 486-493
FetchModelsSettles ==
    /\ kCall = "fetchModels"
    /\ kPc = "fetching"
    /\ \E reply \in Replies(hOut \o API_TAGS) :
        /\ kReply' = reply
        /\ kResult' = ModelsOf(reply)
    /\ kPc' = "returned"
    /\ UNCHANGED <<hostVars, kCall, kFetches, codecVars, appVars>>

NextClient ==
    \/ CheckConnectionStarts
    \/ CheckConnectionSettles
    \/ FetchModelsStarts
    \/ FetchModelsSettles

SpecClient == InitClient /\ [][NextClient]_vars

(***************************************************************************)
(* C12                                                                     *)
(***************************************************************************)
ConnectionResults ==
    { [ok |-> TRUE, errorType |-> "none"],
      [ok |-> FALSE, errorType |-> "INVALID_URL"],
      [ok |-> FALSE, errorType |-> "CORS"],
      [ok |-> FALSE, errorType |-> "NETWORK"] }

\* C12: checkConnection always resolves, to exactly one of four results:
\* INVALID_URL when the cleaned address is not a well-formed URL, and then no
\* request has been issued; otherwise one request is issued, and the result
\* is ok for a 2xx status, CORS for 403, NETWORK for any other status and
\* for a request that failed.
C12_ProbeClassifies ==
    (kCall = "checkConnection" /\ kPc = "returned") =>
        /\ kResult \in ConnectionResults
        /\ hOut = cleanHost(hIn)
        /\ kResult.errorType = "INVALID_URL" <=> ~UrlParses(hOut)
        /\ kResult.errorType = "INVALID_URL" <=> kFetches = 0
        /\ kFetches <= 1
        /\ kFetches = 1 =>
            /\ kResult.ok <=>
                    (kReply.kind = "status" /\ kReply.status \in 200..299)
            /\ kResult.errorType = "CORS" <=>
                    (kReply.kind = "status" /\ kReply.status = 403)
            /\ kResult.errorType = "NETWORK" <=>
                    \/ kReply.kind = "reject"
                    \/ kReply.kind = "status" /\ kReply.status \notin (200..299) \cup {403}

\* an address with a blank inside is refused before any request is made
C12_Witness ==
    /\ kCall = "checkConnection"
    /\ kPc = "returned"
    /\ hIn = HOST_NAME \o <<" ">> \o HOST_NAME
    /\ kResult = [ok |-> FALSE, errorType |-> "INVALID_URL"]
    /\ kFetches = 0

(***************************************************************************)
(* C13                                                                     *)
(***************************************************************************)
\* the request of fetchModels failed, or its body has no `models` array
ListingFailed ==
    \/ kReply.kind = "reject"
    \/ kReply.status \notin 200..299
    \/ kReply.body \notin {"modelsEmpty", "modelsList"}

\* C13 as claimed: fetchModels always resolves, and on any failure (a
\* request that failed, a status that is not a success, a body that is not
\* JSON, a body without a models array) it resolves to the empty sequence.
C13_ListingNeverFails ==
    (kCall = "fetchModels" /\ kPc = "returned") =>
        /\ kResult.kind = "array"
        /\ ListingFailed => kResult = EmptyArray

(***************************************************************************)
(* C16                                                                     *)
(***************************************************************************)
\* C16: when the split of the response on '---SPLIT---' does not have as
\* many pieces as the batch has texts, but the response has exactly that
\* many non-blank lines, translateBatch returns those lines, in order.
C16_SecondaryRecovery ==
    (/\ cPc = "returned"
     /\ cOutcome.kind = "ok"
     /\ DelimiterCount(cOutcome.response) # Len(cTexts)
     /\ LineCount(cOutcome.response) = Len(cTexts))
        => cResult = FilterNonBlank(Split(Trim(cOutcome.response), <<"\n">>))

\* two pieces for three texts, and three lines
C16_Witness ==
    /\ cPc = "returned"
    /\ cTexts = ScenarioTexts
    /\ cOutcome = Outcome("ok", ScenarioResponse)
    /\ DelimiterCount(cOutcome.response) = 2
    /\ cResult = << <<"a">>, <<"a">> \o SPLIT \o <<"a">>, <<"a">> >>

(***************************************************************************)
(* C14                                                                     *)
(***************************************************************************)
\* a content with a block that is not a subtitle entry
Malformed(content) == \E k \in 1..Len(content) : ~IsSubtitle(content[k])

\* C14 as claimed: once a malformed file has been read, no run has started
\* for it (no batch was sent, the state did not become PROCESSING) and the
\* application is in the ERROR state.
C14_MalformedIsFatal ==
    \A f \in Files :
        (readers[f] = "loaded" /\ Malformed(fileContent[f])) =>
            /\ runs[f].pc = "none"
            /\ log[f] = <<>>
            /\ state = "ERROR"

(***************************************************************************)
(* C15                                                                     *)
(***************************************************************************)
\* the batches of a log that have been answered
Answered(l) == Cardinality({k \in 1..Len(l) : l[k].status \in {"ok", "failed"}})

\* C15: the k-th batch of a run on n entries covers the entries from
\* (k-1)*BATCH_SIZE to min(k*BATCH_SIZE, n), a finished run has sent
\* ceil(n/BATCH_SIZE) batches, and when the k-th batch is answered the
\* processed count becomes min(k*BATCH_SIZE, n).
C15_BatchCountAndProgress ==
    /\ [](\A f \in Files :
            LET l == log[f]
                n == Len(runs[f].blocks)
            IN  /\ \A k \in 1..Len(l) :
                    /\ l[k].from = (k - 1) * BATCH_SIZE
                    /\ l[k].to = Min(k * BATCH_SIZE, n)
                    /\ k < Len(l) => l[k].to - l[k].from = BATCH_SIZE
                /\ Len(l) <= BatchCount(n)
                /\ Finished(f) => Len(l) = BatchCount(n)
                /\ Started(f) =>
                    runs[f].currentProcessed = Min(Answered(l) * BATCH_SIZE, n))
    /\ [][\A f \in Files :
            Answered(log'[f]) = Answered(log[f]) + 1 =>
                stats'.processedLines =
                    Min(Answered(log'[f]) * BATCH_SIZE, Len(runs'[f].blocks))]_vars

\* two batches of BATCH_SIZE answered, the short last batch sent
C15_Witness ==
    \E f \in Files :
        /\ Len(runs[f].blocks) = MaxLines
        /\ Len(log[f]) = 3
        /\ Answered(log[f]) = 2
        /\ log[f][3].to - log[f][3].from = MaxLines - 2 * BATCH_SIZE
        /\ stats.processedLines = 2 * BATCH_SIZE

(***************************************************************************)
(* C17                                                                     *)
(***************************************************************************)
\* the entries of a document whose translatedText has been written (every
\* text that is written here has at least one character)
Written(f) == {k \in 1..Len(heap[f]) : heap[f][k].translatedText # <<>>}

\* C17: in every state the written entries of a document are its first
\* ones: no entry is written while an earlier one is not.
C17_InOrderMerge ==
    \A f \in Files : \A k \in Written(f) : \A j \in 1..k : j \in Written(f)

\* the first batch is merged, the rest of the document is not
C17_Witness ==
    \E f \in Files :
        /\ Len(heap[f]) = MaxLines
        /\ Written(f) = 1..BATCH_SIZE

(***************************************************************************)
(* C18                                                                     *)
(***************************************************************************)
\* how many answered batches of the run on f hold its k-th entry
Writes(f, k) ==
    Cardinality({j \in 1..Len(log[f]) :
                    /\ log[f][j].status \in {"ok", "failed"}
                    /\ log[f][j].from < k
                    /\ k <= log[f][j].to})

\* C18: translatedText is empty until the batch that holds the entry is
\* answered, it is written then and never again, and once the run is over
\* every entry has been written once.
C18_WrittenOnce ==
    /\ [](\A f \in Files : \A k \in 1..Len(heap[f]) :
            /\ Writes(f, k) <= 1
            /\ Writes(f, k) = 0 <=> heap[f][k].translatedText = <<>>
            /\ Finished(f) => Writes(f, k) = 1)
    /\ [][\A f \in Files : \A k \in 1..Len(heap[f]) :
            /\ Len(heap'[f]) = Len(heap[f])
            /\ heap[f][k].translatedText # <<>> =>
                    heap'[f][k].translatedText = heap[f][k].translatedText
            /\ heap'[f][k].translatedText # heap[f][k].translatedText =>
                    Writes(f, k)' = 1]_vars

\* a finished run on the longest document: every entry written
C18_Witness ==
    \E f \in Files :
        /\ Finished(f)
        /\ Len(heap[f]) = MaxLines
        /\ \A k \in 1..MaxLines :
                Writes(f, k) = 1 /\ heap[f][k].translatedText # <<>>

(***************************************************************************)
(* C19                                                                     *)
(***************************************************************************)
\* C19 as claimed: in a step during which a backend call stays awaited,
\* neither the document nor any field of stats changes.
C19_NothingChangesWhileAwaiting ==
    [][(net # {} /\ net \subseteq net') =>
            /\ subtitleBlocks' = subtitleBlocks
            /\ heap' = heap
            /\ stats' = stats]_vars

(***************************************************************************)
(* C20                                                                     *)
(***************************************************************************)
RunInProgress == \E f \in Files : runs[f].pc = "await"

\* C20 as claimed: startTime is set once, when a run starts; endTime is not
\* set while a run is in progress and is set once, when the run ends; neither
\* changes afterwards, and endTime is not earlier than startTime.
C20_TimestampLifecycle ==
    /\ [][stats.startTime # Null => stats'.startTime = stats.startTime]_vars
    /\ [][stats.endTime # Null => stats'.endTime = stats.endTime]_vars
    /\ [](RunInProgress => stats.endTime = Null)
    /\ [](stats.endTime # Null => stats.endTime >= stats.startTime)

DerivedElapsed ==
    IF state = "COMPLETED" THEN stats.endTime - stats.startTime
    ELSE now - stats.startTime

\* C21 as claimed: the elapsed time shown is now - startTime while the run
\* is going on and endTime - startTime once it is over, where it no longer
\* changes; the speed shown is processed / elapsed, and 0 when elapsed is 0.
C21_ElapsedDerived ==
    /\ [](state \in {"PROCESSING", "COMPLETED"} =>
            /\ elapsedShown = DerivedElapsed
            /\ speed = IF DerivedElapsed = 0 THEN 0
                       ELSE ToFixed1(stats.processedLines, DerivedElapsed))
    /\ [][(state = "COMPLETED" /\ state' = "COMPLETED")
            => elapsedShown' = elapsedShown]_vars

(***************************************************************************)
(* C24                                                                     *)
(***************************************************************************)
\* the entries of the document on display whose translatedText is written
ShownWritten ==
    {k \in 1..Len(subtitleBlocks) :
        heap[subtitleBlocks[k].file][subtitleBlocks[k].idx].translatedText # <<>>}

REMOTE_HOST == HTTP_PREFIX \o <<"g", "p", "u", ":", "1", "1", "4", "3", "4">>

DOWN_HOST == HTTP_PREFIX \o <<"o", "l", "d", ":", "1", "1", "4", "3", "4">>

ConfigHosts == {DEFAULT_HOST, REMOTE_HOST, DOWN_HOST}

\* what checkConnection(host) resolves to
Probe(host) ==
    IF host = DOWN_HOST
    THEN [ok |-> FALSE, errorType |-> "NETWORK"]
    ELSE [ok |-> TRUE, errorType |-> "none"]

\* what fetchModels(host) resolves to
Listing(host) ==
    IF host = DEFAULT_HOST THEN <<"qwen">>
    ELSE IF host = REMOTE_HOST THEN <<"llama">>
    ELSE <<>>

\* the first render: the effect has set its timer for the initial config
InitConfig ==
    /\ AppIdle
    /\ CodecIdle
    /\ HostIdle
    /\ ClientIdle
    /\ loads = [i \in 1..MaxLoads |-> NoLoad]
    /\ pending = [set |-> TRUE, host |-> config.host, model |-> config.model]

\* the host <input>, line 169; the effect of the new render replaces the timer
EditHost(h) ==
    /\ state = "CONFIG"
    /\ h # config.host
    /\ config' = [config EXCEPT !.host = h]
    /\ pending' = [set |-> TRUE, host |-> h, model |-> config.model]
    /\ UNCHANGED <<state, models, connectionStatus, isChecking, loadPc, loads,
                   docVars, runVars, now, codecVars, hostVars, clientVars>>

\* the 500 ms timer fires: load() runs up to `await checkConnection`
LoadStarts(i) ==
    /\ pending.set
    /\ loads[i].pc = "free"
    /\ isChecking' = TRUE
    /\ loads' = [loads EXCEPT ![i] = [host |-> pending.host, model |-> pending.model,
                                      pc |-> "checking"]]
    /\ pending' = NoTimer
    /\ UNCHANGED <<state, config, models, connectionStatus, loadPc,
                   docVars, runVars, now, codecVars, hostVars, clientVars>>

\* checkConnection of load i resolves; on ok, load() runs up to `await fetchModels`
LoadChecked(i) ==
    /\ loads[i].pc = "checking"
    /\ \E status \in {Probe(loads[i].host)} :
        /\ connectionStatus' = status
        /\ IF status.ok
           THEN /\ loads' = [loads EXCEPT ![i].pc = "fetching"]
                /\ UNCHANGED <<models, isChecking>>
           ELSE /\ models' = <<>>
                /\ isChecking' = FALSE
                /\ loads' = [loads EXCEPT ![i] = NoLoad]
    /\ UNCHANGED <<state, config, loadPc, pending,
                   docVars, runVars, now, codecVars, hostVars, clientVars>>

\* fetchModels of load i resolves; load() runs to its end
LoadFetched(i) ==
    /\ loads[i].pc = "fetching"
    /\ \E availableModels \in {Listing(loads[i].host)} :
        /\ models' = availableModels
        /\ config' = IF Len(availableModels) > 0 /\ loads[i].model = ""
                     THEN [config EXCEPT !.model = availableModels[1]]
                     ELSE config
    /\ isChecking' = FALSE
    /\ loads' = [loads EXCEPT ![i] = NoLoad]
    /\ UNCHANGED <<state, connectionStatus, loadPc, pending,
                   docVars, runVars, now, codecVars, hostVars, clientVars>>

NextConfig ==
    \/ \E h \in ConfigHosts : EditHost(h)
    \/ \E i \in 1..MaxLoads : LoadStarts(i)
    \/ \E i \in 1..MaxLoads : LoadChecked(i)
    \/ \E i \in 1..MaxLoads : LoadFetched(i)
    \/ SelectModel

SpecConfig == InitConfig /\ [][NextConfig]_vars

(***************************************************************************)
(* C23                                                                     *)
(***************************************************************************)
\* no timer is set and no load() is in flight
LoadsSettled ==
    /\ ~pending.set
    /\ \A i \in 1..MaxLoads : loads[i].pc = "free"

\* C23 as claimed: once every probe and listing request has finished, the
\* stored connectionStatus and models are the results for the host entered
\* last, whatever the order in which the requests completed.
C23_ProbeFresh ==
    LoadsSettled =>
        /\ connectionStatus = Probe(config.host)
        /\ models = IF Probe(config.host).ok THEN Listing(config.host) ELSE <<>>

====
